---- MODULE Spec2Model ----
(***************************************************************************)
(* Order lifecycle of src/server.js: the in-memory order store, the two    *)
(* claim entry points, the two photo entry points, worker registration,    *)
(* the reminder timers and the Google Sheets ledger.                       *)
(*                                                                         *)
(* Every async handler is a process held in a slot of h; one action is the *)
(* code that runs between two awaits.  The action that resumes an await    *)
(* draws the awaited call's outcome (ok or a thrown failure) and applies   *)
(* the call's effect.  Time is counted in hours.  The 'reject_' branch of   *)
(* the callback listener only answers the callback and is left out.        *)
(* Text is a sequence of letters over a small alphabet; the city names of  *)
(* CITY_CHANNELS are spelled with two letters of it.  The sheet has its    *)
(* header row, which the ledger leaves out.                                *)
(***************************************************************************)
EXTENDS Integers, Sequences, FiniteSets, TLC

VARIABLES now, orders, masters, h, timers, ledger, requests, served, res

vars == <<now, orders, masters, h, timers, ledger, requests, served, res>>

----------------------------------------------------------------------------
(* Bounds of the model *)

MaxNow == 1
MaxCreates == 2
MaxRequests == 3
Workers == {1, 2}
Registrants == {1}
Slots == {1, 2}
Schedules == {25}
FarSchedules == {700}
NearSchedules == {3}
Captions == {{}, {"do", "posle"}, {"posle"}}
ApiStages == {"before", "after"}
MaxLen == 3
MaxRoutes == 1
Alphabet == {"A", "a", "b"}

(* Program constants, in hours *)

H24 == 24
H2 == 2
TIMEOUT_MAX == 596

----------------------------------------------------------------------------
(* Values *)

Undefined == <<"undefined", 0>>
Num(w) == <<"number", w>>
Str(w) == <<"string", w>>
toString(k) == <<"string", k[2]>>

NoChat == 0
NoRef == 0
Unset == 0 - 1
UnknownId == 0 - 1

MasterIdInputs == {Str(1), Num(1), Num(2)}

\* A string value of a request body.
Txt(t) == <<"string", t>>

\* req.body of create-order: the fields the handlers and reminders read.
Body(address, phone) == [customerAddress |-> address, customerPhone |-> phone]

NoBody == Body(Undefined, Undefined)

Bodies == {NoBody, Body(Txt(<<"b", "b">>), Txt(<<"a">>))}

Texts == UNION {[1..k -> Alphabet] : k \in 0..MaxLen}

RouteBodies == {Body(Txt(a), Undefined) : a \in Texts}

mastersGet(k) == IF k \in DOMAIN masters THEN masters[k] ELSE NoChat

Idle ==
  [pc |-> "idle", kind |-> "none", order |-> 0, obj |-> 0, master |-> Undefined,
   type |-> "", row |-> 0, ref |-> NoRef, chat |-> NoChat, date |-> 0,
   prev |-> "none", channel |-> ""]

Free(s) == h[s].pc = "idle"

\* A request is served by the lowest free slot.
Slot(s) == Free(s) /\ \A t \in Slots : Free(t) => s <= t

NoResponse == [kind |-> "none", out |-> "none"]

\* What a handler's request was, with the outcome it ends with.
Response(r, outcome) ==
  [kind |-> r.kind, out |-> outcome]

\* The handler in slot s ends with an outcome: res.json / res.status, the
\* answered callback, or the end of the listener.
Respond(s, outcome) ==
  /\ h' = [h EXCEPT ![s] = Idle]
  /\ res' = Response(h[s], outcome)

\* The handler in slot s goes on to its next await.
Goto(s, pc) ==
  /\ h' = [h EXCEPT ![s].pc = pc]
  /\ res' = res

Min(S) == CHOOSE x \in S : \A y \in S : x <= y

----------------------------------------------------------------------------
(* Pure helpers *)

\* bot.on('photo'): the stage of a caption, by the first marker it contains.
classify(text) ==
  IF "na meste" \in text THEN "on_site"
  ELSE IF "himiya" \in text THEN "chemistry"
  ELSE IF "do" \in text THEN "before"
  ELSE IF "posle" \in text THEN "after"
  ELSE ""

\* CITY_CHANNELS in the order of its keys; the first city is also the default.
CITY_CHANNELS ==
  <<[city |-> <<"A", "b">>, channel |-> "@apexclean_moscow"],
    [city |-> <<"b", "A">>, channel |-> "@apexclean_spb"],
    [city |-> <<"b", "b">>, channel |-> "@apexclean_kazan"]>>

\* String.prototype.toLowerCase
keepCase(text) == text

toLowerCase(text) == [i \in 1..Len(text) |-> IF text[i] = "A" THEN "a" ELSE text[i]]

\* String.prototype.includes
includes(text, part) ==
  \E i \in 0..Len(text) - Len(part) :
    \A j \in 1..Len(part) : text[i + j] = part[j]

\* extractCityFromAddress(address), address a string: the first city of
\* CITY_CHANNELS whose lower-cased name the lower-cased address includes.
extractCityFromAddress(address) ==
  LET cities == {i \in 1..Len(CITY_CHANNELS) :
                   includes(toLowerCase(address[2]),
                            toLowerCase(CITY_CHANNELS[i].city))}
  IN IF cities = {} THEN CITY_CHANNELS[1].city ELSE CITY_CHANNELS[Min(cities)].city

\* CITY_CHANNELS[city] || CITY_CHANNELS['Москва']
Channel(city) ==
  LET found == {i \in 1..Len(CITY_CHANNELS) : CITY_CHANNELS[i].city = city}
  IN IF found = {} THEN CITY_CHANNELS[1].channel
     ELSE CITY_CHANNELS[Min(found)].channel

\* setTimeout: a delay below 1 ms, or above TIMEOUT_MAX, is run as 1 ms.
timeoutDelay(delay) == IF delay < 1 \/ delay > TIMEOUT_MAX THEN 0 ELSE delay

Timer(o, k, chat, at) ==
  [order |-> o, kind |-> k, chat |-> chat, at |-> at,
   due |-> now + timeoutDelay(at - now), fired |-> FALSE, sent |-> Undefined]

\* The callback of a timer runs once its delay has passed; no timer is cleared.
DueWhileTaken(i) ==
  /\ ~timers[i].fired
  /\ timers[i].due <= now
  /\ orders[timers[i].order].status = "taken"

Due(i) == ~timers[i].fired /\ timers[i].due <= now

\* What a reminder reads from orders.get(orderId) when its callback runs.
ReminderText(i) ==
  IF timers[i].kind = "24h"
  THEN orders[timers[i].order].customerAddress
  ELSE orders[timers[i].order].customerPhone

\* scheduleNotifications(orderId, date, time): the timer list afterwards.
scheduleNotifications(o, date) ==
  LET masterChatId == mastersGet(orders[o].masterId) IN
  IF masterChatId # NoChat
  THEN timers \o <<Timer(o, "24h", masterChatId, date - H24),
                   Timer(o, "2h", masterChatId, date - H2)>>
  ELSE timers

\* updateGoogleSheet: 1-based index of the first row whose column B is the id.
RowIndexOrNext(o) ==
  IF \E i \in 1..Len(ledger) : ledger[i].B = o
  THEN Min({i \in 1..Len(ledger) : ledger[i].B = o})
  ELSE Len(ledger) + 1

RowIndex(o) ==
  IF \E i \in 1..Len(ledger) : ledger[i].B = o
  THEN Min({i \in 1..Len(ledger) : ledger[i].B = o})
  ELSE 0

\* updateGoogleSheet: Object.values(updates) written from column K on.
WriteRow(row, values) ==
  [row EXCEPT !.K = values[1],
              !.L = IF Len(values) >= 2 THEN values[2] ELSE row.L,
              !.M = IF Len(values) >= 3 THEN values[3] ELSE row.M]

BlankRow == [B |-> UnknownId, K |-> "", L |-> "", M |-> ""]

\* sheets.spreadsheets.values.update on K<rowIndex>:T<rowIndex>: the cells of
\* that row are set; a row just below the last one is filled in.
SheetUpdate(rowIndex, values) ==
  IF rowIndex \in 1..Len(ledger)
  THEN [ledger EXCEPT ![rowIndex] = WriteRow(@, values)]
  ELSE Append(ledger, WriteRow(BlankRow, values))

\* The values of the update a handler awaits at pc "upd" / "upd2".
Updates(s) ==
  IF h[s].pc = "upd2" THEN <<"completed">>
  ELSE IF h[s].kind \in {"take", "cb"} THEN <<"taken", "masterName", "takenAt">>
  ELSE <<"photoUrl", "photoAt">>

\* The store as a catch block (or an unhandled rejection) leaves it.
CatchStoreRollback(s) ==
  IF h[s].order \in DOMAIN orders
  THEN [orders EXCEPT ![h[s].order].status = "pending",
                      ![h[s].order].masterId = Undefined,
                      ![h[s].order].takenAt = Unset]
  ELSE orders

CatchStore(s) == orders

\* A thrown failure ends the handler: res.status(500), or an unhandled rejection.
Throw(s) ==
  /\ Respond(s, "error")
  /\ orders' = CatchStore(s)

----------------------------------------------------------------------------
Init ==
  /\ now = 0
  /\ orders = [o \in {} |-> 0]
  /\ masters = [k \in {} |-> NoChat]
  /\ h = [s \in Slots |-> Idle]
  /\ timers = << >>
  /\ ledger = << >>
  /\ requests = 0
  /\ served = 0
  /\ res = NoResponse

----------------------------------------------------------------------------
(* The clock and worker registration *)

Tick ==
  /\ now < MaxNow
  /\ now' = now + 1
  /\ UNCHANGED <<orders, masters, h, timers, ledger, requests, served, res>>

\* bot.onText(/\/start/): masters.set(userId.toString(), chatId)
Register(w) ==
  /\ toString(Num(w)) \notin DOMAIN masters
  /\ masters' = [k \in DOMAIN masters \cup {toString(Num(w))} |->
                   IF k = toString(Num(w)) THEN w ELSE masters[k]]
  /\ UNCHANGED <<now, orders, h, timers, ledger, requests, served, res>>

\* A setTimeout callback of scheduleNotifications runs.
Fire(i) ==
  /\ i \in 1..Len(timers)
  /\ Due(i)
  /\ timers' = [timers EXCEPT ![i].fired = TRUE, ![i].sent = ReminderText(i)]
  /\ UNCHANGED <<now, orders, masters, h, ledger, requests, served, res>>

----------------------------------------------------------------------------
(* POST /api/create-order *)

NewOrder(date, body) ==
  [obj |-> requests + 1, status |-> "pending", createdAt |-> now,
   orderDate |-> date, customerAddress |-> body.customerAddress,
   customerPhone |-> body.customerPhone, masterId |-> Undefined,
   takenAt |-> Unset, completedAt |-> Unset, telegramMessageId |-> NoRef,
   photos |-> {}]

\* Up to the await of bot.sendMessage(channel, ...): orderId is 'CLN-' + Date.now().
\* Without customerAddress, address.toLowerCase() throws after orders.set.
CreateOrder(s, date, body, budget) ==
  /\ Slot(s)
  /\ requests < MaxCreates
  /\ requests + served < budget
  /\ requests' = requests + 1
  /\ orders' = [o \in DOMAIN orders \cup {now} |->
                  IF o = now THEN NewOrder(date, body) ELSE orders[o]]
  /\ IF body.customerAddress = Undefined
     THEN /\ h' = h
          /\ res' = [kind |-> "create", out |-> "error"]
     ELSE /\ h' = [h EXCEPT ![s] =
                    [Idle EXCEPT !.pc = "c_send", !.kind = "create",
                                 !.order = now, !.obj = requests + 1,
                                 !.date = date,
                                 !.channel = Channel(extractCityFromAddress(
                                                       body.customerAddress))]]
          /\ res' = res
  /\ UNCHANGED <<now, masters, timers, ledger, served>>

\* The broadcast returns: its message id is stored on orders.get(orderId).
CreateSent(s) ==
  /\ h[s].pc = "c_send"
  /\ \E ok \in BOOLEAN :
       IF ok
       THEN /\ orders' = [orders EXCEPT ![h[s].order].telegramMessageId = h[s].obj]
            /\ Goto(s, "c_save")
       ELSE Throw(s)
  /\ UNCHANGED <<now, masters, timers, ledger, requests, served>>

\* saveToGoogleSheets returns: the row is appended, res.json({success: true}).
CreateSaved(s) ==
  /\ h[s].pc = "c_save"
  /\ \E ok \in BOOLEAN :
       IF ok
       THEN /\ ledger' = Append(ledger, [B |-> h[s].order, K |-> "pending",
                                         L |-> "orderDate", M |-> "orderTime"])
            /\ Respond(s, "success")
            /\ orders' = orders
       ELSE /\ Throw(s)
            /\ ledger' = ledger
  /\ UNCHANGED <<now, masters, timers, requests, served>>

----------------------------------------------------------------------------
(* POST /api/take-order *)

\* The request of a claim handler: the status it finds is kept as prev.
Claim(kind, o, m, pc) ==
  [Idle EXCEPT !.pc = pc, !.kind = kind, !.order = o, !.master = m,
               !.obj = orders[o].obj, !.prev = orders[o].status,
               !.ref = orders[o].telegramMessageId, !.date = orders[o].orderDate]

\* Up to the await of bot.deleteMessage: no test of order.status.
TakeOrder(s, o, m, budget) ==
  /\ Slot(s)
  /\ requests + served < budget
  /\ served' = served + 1
  /\ IF o \notin DOMAIN orders
     THEN /\ res' = [NoResponse EXCEPT !.kind = "take", !.order = o, !.master = m,
                                       !.out = "notFound"]
          /\ UNCHANGED <<h, orders>>
     ELSE /\ orders' = [orders EXCEPT ![o].status = "taken",
                                      ![o].masterId = m,
                                      ![o].takenAt = now]
          /\ h' = [h EXCEPT ![s] = Claim("take", o, m, "t_delete")]
          /\ res' = res
  /\ UNCHANGED <<now, masters, timers, ledger, requests>>

\* deleteMessage returns; then masters.get(masterId) decides the private send.
TakeDeleted(s) ==
  /\ h[s].pc = "t_delete"
  /\ \E ok \in BOOLEAN :
       IF ok /\ h[s].ref # NoRef
       THEN /\ h' = [h EXCEPT ![s].pc = IF mastersGet(h[s].master) # NoChat
                                        THEN "t_notify" ELSE "get",
                              ![s].chat = mastersGet(h[s].master)]
            /\ UNCHANGED <<orders, res>>
       ELSE Throw(s)
  /\ UNCHANGED <<now, masters, timers, ledger, requests, served>>

\* bot.sendMessage(masterChatId, fullInfo) returns.
TakeNotified(s) ==
  /\ h[s].pc = "t_notify"
  /\ \E ok \in BOOLEAN :
       IF ok
       THEN /\ Goto(s, "get")
            /\ orders' = orders
       ELSE Throw(s)
  /\ UNCHANGED <<now, masters, timers, ledger, requests, served>>

----------------------------------------------------------------------------
(* updateGoogleSheet and the code that follows its await *)

\* order.status = 'completed' on the object the photo handler holds.
Complete(s) ==
  IF orders[h[s].order].obj = h[s].obj
  THEN [orders EXCEPT ![h[s].order].status = "completed"]
  ELSE orders

AfterUpdate(s) ==
  IF h[s].kind = "take"
  THEN /\ timers' = scheduleNotifications(h[s].order, h[s].date)
       /\ Respond(s, "success")
       /\ orders' = orders
  ELSE IF h[s].kind = "cb"
  THEN /\ Goto(s, "k_answer")
       /\ UNCHANGED <<timers, orders>>
  ELSE IF h[s].kind = "upload"
  THEN /\ IF h[s].type = "after" THEN Goto(s, "u_notify") ELSE Respond(s, "success")
       /\ UNCHANGED <<timers, orders>>
  ELSE IF h[s].pc \in {"get", "upd"} /\ h[s].type = "after"
  THEN /\ orders' = Complete(s)
       /\ h' = [h EXCEPT ![s].pc = "get2", ![s].row = 0]
       /\ UNCHANGED <<timers, res>>
  ELSE /\ Respond(s, "success")
       /\ UNCHANGED <<timers, orders>>

\* sheets.spreadsheets.values.get returns the rows; the row of orderId is looked up.
LedgerGet(s) ==
  /\ h[s].pc \in {"get", "get2"}
  /\ \E ok \in BOOLEAN :
       IF ~ok
       THEN Throw(s) /\ timers' = timers
       ELSE IF RowIndex(h[s].order) > 0
       THEN /\ h' = [h EXCEPT ![s].pc = IF h[s].pc = "get" THEN "upd" ELSE "upd2",
                              ![s].row = RowIndex(h[s].order)]
            /\ UNCHANGED <<timers, orders, res>>
       ELSE AfterUpdate(s)
  /\ UNCHANGED <<now, masters, ledger, requests, served>>

\* sheets.spreadsheets.values.update returns: the row is written from column K.
LedgerUpdate(s) ==
  /\ h[s].pc \in {"upd", "upd2"}
  /\ \E ok \in BOOLEAN :
       IF ~ok
       THEN Throw(s) /\ UNCHANGED <<timers, ledger>>
       ELSE /\ ledger' = SheetUpdate(h[s].row, Updates(s))
            /\ AfterUpdate(s)
  /\ UNCHANGED <<now, masters, requests, served>>

----------------------------------------------------------------------------
(* bot.on('callback_query') *)

\* if (order && order.status === 'pending'), of an order that exists
CanTakeAlways(order) == TRUE

CanTake(order) == order.status = "pending"

\* data 'take_<orderId>', up to the first await.
CallbackTake(s, o, w, budget) ==
  /\ Slot(s)
  /\ requests + served < budget
  /\ served' = served + 1
  /\ o \in DOMAIN orders
  /\ orders[o].telegramMessageId # NoRef
  /\ IF CanTake(orders[o])
     THEN /\ orders' = [orders EXCEPT ![o].status = "taken",
                                      ![o].masterId = Num(w),
                                      ![o].takenAt = now]
          /\ h' = [h EXCEPT ![s] = Claim("cb", o, Num(w), "k_delete")]
     ELSE /\ orders' = orders
          /\ h' = [h EXCEPT ![s] = [Claim("cb", o, Num(w), "k_taken")
                                      EXCEPT !.ref = NoRef, !.date = 0, !.obj = 0]]
  /\ UNCHANGED <<now, masters, timers, ledger, requests, res>>

\* deleteMessage returns; bot.sendMessage(masters.get(masterId), fullInfo) is called.
CallbackDeleted(s) ==
  /\ h[s].pc = "k_delete"
  /\ \E ok \in BOOLEAN :
       IF ok
       THEN /\ h' = [h EXCEPT ![s].pc = "k_notify",
                              ![s].chat = mastersGet(h[s].master)]
            /\ UNCHANGED <<orders, res>>
       ELSE Throw(s)
  /\ UNCHANGED <<now, masters, timers, ledger, requests, served>>

\* The private send returns; a send to an undefined chat id is rejected.
CallbackNotified(s) ==
  /\ h[s].pc = "k_notify"
  /\ \E ok \in BOOLEAN :
       IF ok /\ h[s].chat # NoChat
       THEN /\ Goto(s, "get")
            /\ orders' = orders
       ELSE Throw(s)
  /\ UNCHANGED <<now, masters, timers, ledger, requests, served>>

\* bot.answerCallbackQuery returns, after a grant or with 'already taken'.
CallbackAnswered(s) ==
  /\ h[s].pc \in {"k_answer", "k_taken"}
  /\ \E ok \in BOOLEAN :
       IF ~ok
       THEN Throw(s) /\ timers' = timers
       ELSE IF h[s].pc = "k_answer"
       THEN /\ timers' = scheduleNotifications(h[s].order, h[s].date)
            /\ Respond(s, "success")
            /\ orders' = orders
       ELSE /\ Respond(s, "conflict")
            /\ UNCHANGED <<timers, orders>>
  /\ UNCHANGED <<now, masters, ledger, requests, served>>

----------------------------------------------------------------------------
(* POST /api/upload-photo *)

\* Up to the await of updateGoogleSheet: no test of order.status.
UploadPhoto(s, o, type, budget) ==
  /\ Slot(s)
  /\ requests + served < budget
  /\ served' = served + 1
  /\ IF o \notin DOMAIN orders
     THEN /\ res' = [NoResponse EXCEPT !.kind = "upload", !.order = o,
                                       !.out = "notFound"]
          /\ UNCHANGED <<h, orders>>
     ELSE /\ orders' = [orders EXCEPT ![o].photos = @ \cup {type}]
          /\ h' = [h EXCEPT ![s] = [Idle EXCEPT !.pc = "get", !.kind = "upload",
                                                !.order = o, !.obj = orders[o].obj,
                                                !.prev = orders[o].status,
                                                !.type = type]]
          /\ res' = res
  /\ UNCHANGED <<now, masters, timers, ledger, requests>>

\* notifyManager returns, res.json({success: true}).
UploadNotified(s) ==
  /\ h[s].pc = "u_notify"
  /\ \E ok \in BOOLEAN :
       IF ok
       THEN /\ Respond(s, "success")
            /\ orders' = orders
       ELSE Throw(s)
  /\ UNCHANGED <<now, masters, timers, ledger, requests, served>>

----------------------------------------------------------------------------
(* bot.on('photo') *)

\* The caption is classified; with a stage, bot.getFile is awaited.
Photo(s, w, text, budget) ==
  /\ Slot(s)
  /\ requests + served < budget
  /\ served' = served + 1
  /\ classify(text) # ""
  /\ h' = [h EXCEPT ![s] = [Idle EXCEPT !.pc = "p_file", !.kind = "photo",
                                        !.master = Num(w),
                                        !.type = classify(text)]]
  /\ UNCHANGED <<now, orders, masters, timers, ledger, requests, res>>

\* Array.from(orders.values()).find(o => o.masterId === msg.from.id && o.status === 'taken')
FindOrder(m) ==
  LET found == {o \in DOMAIN orders :
                  orders[o].masterId = m /\ orders[o].status = "taken"}
  IN IF found = {} THEN UnknownId ELSE Min(found)

\* getFile returns; the worker's taken order gets the photo.
PhotoFile(s) ==
  /\ h[s].pc = "p_file"
  /\ \E ok \in BOOLEAN :
       IF ~ok
       THEN Throw(s)
       ELSE IF FindOrder(h[s].master) = UnknownId
       THEN /\ Respond(s, "discarded")
            /\ orders' = orders
       ELSE /\ orders' = [orders EXCEPT ![FindOrder(h[s].master)].photos =
                                           @ \cup {h[s].type}]
            /\ h' = [h EXCEPT ![s].pc = "get",
                              ![s].order = FindOrder(h[s].master),
                              ![s].obj = orders[FindOrder(h[s].master)].obj,
                              ![s].prev = "taken"]
            /\ res' = res
  /\ UNCHANGED <<now, masters, timers, ledger, requests, served>>

----------------------------------------------------------------------------
NextWith(dates, bodies, budget) ==
  \/ Tick
  \/ \E w \in Registrants : Register(w)
  \/ \E i \in 1..Len(timers) : Fire(i)
  \/ \E s \in Slots, date \in dates, body \in bodies :
       CreateOrder(s, date, body, budget)
  \/ \E s \in Slots : CreateSent(s)
  \/ \E s \in Slots : CreateSaved(s)
  \/ \E s \in Slots, o \in DOMAIN orders \cup {UnknownId}, m \in MasterIdInputs :
       TakeOrder(s, o, m, budget)
  \/ \E s \in Slots : TakeDeleted(s)
  \/ \E s \in Slots : TakeNotified(s)
  \/ \E s \in Slots : LedgerGet(s)
  \/ \E s \in Slots : LedgerUpdate(s)
  \/ \E s \in Slots, o \in DOMAIN orders, w \in Workers :
       CallbackTake(s, o, w, budget)
  \/ \E s \in Slots : CallbackDeleted(s)
  \/ \E s \in Slots : CallbackNotified(s)
  \/ \E s \in Slots : CallbackAnswered(s)
  \/ \E s \in Slots, o \in DOMAIN orders \cup {UnknownId}, type \in ApiStages :
       UploadPhoto(s, o, type, budget)
  \/ \E s \in Slots : UploadNotified(s)
  \/ \E s \in Slots, w \in Workers, text \in Captions :
       Photo(s, w, text, budget)
  \/ \E s \in Slots : PhotoFile(s)

Next == NextWith(Schedules, Bodies, MaxRequests)

Spec == Init /\ [][Next]_vars

\* The same program with orders scheduled beyond the range of setTimeout.
NextFar == NextWith(FarSchedules, Bodies, MaxRequests)

SpecFar == Init /\ [][NextFar]_vars

\* The same program serving one more request.
NextLong == NextWith(Schedules, Bodies, MaxRequests + 1)

SpecLong == Init /\ [][NextLong]_vars

\* The same program with orders scheduled within the hours the clock reaches,
\* the clock advancing and the event loop running every timer that is due.
NextNear == NextWith(NearSchedules, Bodies, MaxRequests)

SpecNear ==
  /\ Init /\ [][NextNear]_vars
  /\ WF_vars(Tick)
  /\ WF_vars(\E i \in 1..Len(timers) : Fire(i))

\* POST /api/create-order alone, over every address text.
NextRoute ==
  \/ \E s \in Slots, date \in Schedules, body \in RouteBodies :
       CreateOrder(s, date, body, MaxRoutes)
  \/ \E s \in Slots : CreateSent(s)
  \/ \E s \in Slots : CreateSaved(s)

SpecRoute == Init /\ [][NextRoute]_vars

----------------------------------------------------------------------------
TypeOK ==
  /\ now \in Nat
  /\ requests \in 0..MaxCreates
  /\ served \in 0..MaxRequests + 1
  /\ \A o \in DOMAIN orders :
       /\ orders[o].status \in {"pending", "taken", "completed"}
       /\ orders[o].createdAt = o
  /\ res.out \in {"none", "success", "error", "conflict", "notFound", "discarded"}

----------------------------------------------------------------------------
(* Vocabulary of the properties *)

ClaimKinds == {"take", "cb"}
PhotoKinds == {"upload", "photo"}

\* The step ends the handler in slot s.
Responds(s) == h[s].pc # "idle" /\ h'[s].pc = "idle"

\* The step is one of a handler that records photos.
RecordingStep(s) ==
  /\ h'[s] # h[s]
  /\ h[s].kind \in PhotoKinds \/ h'[s].kind \in PhotoKinds

\* Order o is the same record before and after the step.
SameRecord(o) == o \in DOMAIN orders /\ orders'[o].obj = orders[o].obj

\* The reminders armed for order o.
Armed(o) == {i \in 1..Len(timers) : timers[i].order = o}

ArmedAfter(o) == {i \in 1..Len(timers') : timers'[i].order = o}

\* The awaits of a granted claim: its side effects.
SideEffectPcs ==
  {"t_delete", "t_notify", "k_delete", "k_notify", "k_answer", "get", "upd"}

----------------------------------------------------------------------------
(* C1: every claim attempt that finds the order already claimed (not       *)
(* pending), through either entry point, ends with the conflict outcome;   *)
(* so of N attempts on one order one is granted and N-1 report a conflict. *)
C1_OneClaimOthersConflict ==
  [][\A s \in Slots :
       (Responds(s) /\ h[s].kind \in ClaimKinds /\ h[s].prev # "pending")
         => res'.out = "conflict"]_vars

(* C2: the status of an order only moves forward: once taken it is never   *)
(* pending again, once completed it is never taken or pending again.       *)
C2_StatusMonotonic ==
  [][\A o \in DOMAIN orders :
       SameRecord(o) =>
         /\ orders[o].status = "taken" => orders'[o].status # "pending"
         /\ orders[o].status = "completed" => orders'[o].status = "completed"]_vars

(* C3: the assigned worker of an order is written only by a step from      *)
(* pending to taken, and once set it never changes.                        *)
C3_WorkerSetOnce ==
  [][\A o \in DOMAIN orders :
       SameRecord(o) =>
         /\ orders'[o].masterId # orders[o].masterId
              => orders[o].status = "pending" /\ orders'[o].status = "taken"
         /\ orders[o].masterId # Undefined
              => orders'[o].masterId = orders[o].masterId]_vars

(* C4: a photo recording of stage 'after' that found its order taken and   *)
(* ended with success leaves the order completed, with completedAt set.    *)
C4_AfterPhotoCompletes ==
  [][\A s \in Slots :
       (/\ Responds(s)
        /\ h[s].kind \in PhotoKinds
        /\ h[s].type = "after"
        /\ h[s].prev = "taken"
        /\ res'.out = "success"
        /\ SameRecord(h[s].order))
         => /\ orders'[h[s].order].status = "completed"
            /\ orders'[h[s].order].completedAt # Unset]_vars

(* C5: a photo recording on an order that is pending or completed changes  *)
(* nothing of that order and ends with the InvalidState outcome.           *)
C5_PhotoNeedsTaken ==
  [][\A s \in Slots :
       /\ RecordingStep(s) =>
            \A o \in DOMAIN orders :
              orders[o].status \in {"pending", "completed"}
                => orders'[o] = orders[o]
       /\ (Responds(s) /\ h[s].kind \in PhotoKinds
             /\ h[s].prev \in {"pending", "completed"})
            => res'.out = "invalidState"]_vars

(* C6: when a side effect of a granted claim fails (the delete of the      *)
(* broadcast, the send to the worker, the ledger calls, the answer to the  *)
(* callback), the failing step changes no order, and the record the claim  *)
(* wrote is not rolled back: it is not pending again, and its assigned     *)
(* worker and takenAt are still set.                                       *)
C6_FailedSideEffectKeepsClaim ==
  [][\A s \in Slots :
       (/\ Responds(s)
        /\ h[s].kind \in ClaimKinds
        /\ h[s].pc \in SideEffectPcs
        /\ res'.out = "error")
         => /\ orders' = orders
            /\ orders[h[s].order].obj = h[s].obj
                 => /\ orders'[h[s].order].status # "pending"
                    /\ orders'[h[s].order].masterId # Undefined
                    /\ orders'[h[s].order].takenAt # Unset]_vars

\* The only request served was a claim, a side effect of it failed, and the
\* order is still taken by the claiming worker.
C6_Witness ==
  /\ served = 1
  /\ res.kind \in ClaimKinds
  /\ res.out = "error"
  /\ \E o \in DOMAIN orders :
       /\ orders[o].status = "taken"
       /\ orders[o].masterId # Undefined
       /\ orders[o].takenAt # Unset

(* C7: when the ledger call for an 'after' photo sent in the chat fails,   *)
(* the order of the photo still becomes completed.                         *)
C7_LedgerFailureCompletes ==
  [][\A s \in Slots :
       (/\ Responds(s)
        /\ h[s].kind = "photo"
        /\ h[s].type = "after"
        /\ h[s].pc \in {"get", "upd"}
        /\ res'.out = "error"
        /\ SameRecord(h[s].order))
         => orders'[h[s].order].status = "completed"]_vars

(* C8: when a claim by a registered worker ends with success, exactly two  *)
(* reminders are armed for the order, a 24h and a 2h one, both addressed   *)
(* to the worker's registered chat; no order has more than two reminders.  *)
C8_TwoRemindersArmed ==
  [][\A s \in Slots :
       (/\ Responds(s)
        /\ h[s].kind \in ClaimKinds
        /\ res'.out = "success"
        /\ toString(h[s].master) \in DOMAIN masters)
         => /\ Cardinality(ArmedAfter(h[s].order)) = 2
            /\ {timers'[i].kind : i \in ArmedAfter(h[s].order)} = {"24h", "2h"}
            /\ \A i \in ArmedAfter(h[s].order) :
                 timers'[i].chat = masters[toString(h[s].master)]]_vars

(* C9: a reminder armed with its fire time already past is due at once,    *)
(* and no reminder fires before its fire time.                             *)
C9_RemindersFireOnTime ==
  [][/\ \A i \in 1..Len(timers') :
          (i > Len(timers) /\ timers'[i].at <= now) => timers'[i].due = now
     /\ \A i \in 1..Len(timers) :
          (~timers[i].fired /\ timers'[i].fired) => timers[i].at <= now]_vars

(* C10: the broadcast reference of an order is kept only while the order   *)
(* is pending: an order that is taken or completed has none.               *)
C10_RefOnlyWhilePending ==
  \A o \in DOMAIN orders :
    orders[o].telegramMessageId # NoRef => orders[o].status = "pending"

(* C11: the broadcast reference is attached only to an order that is still *)
(* pending: when the order was claimed while the broadcast send was        *)
(* suspended, the create handler records no reference on the taken order   *)
(* and ends with the InvalidState outcome (or with the failure of the      *)
(* send).                                                                  *)
C11_RefRecordedOnlyOnPending ==
  [][\A s \in Slots :
       (/\ h[s].pc = "c_send"
        /\ h'[s] # h[s]
        /\ orders[h[s].order].obj = h[s].obj
        /\ orders[h[s].order].status # "pending")
         => /\ orders'[h[s].order].telegramMessageId = NoRef
            /\ Responds(s)
            /\ res'.out \in {"invalidState", "error"}]_vars

(* C12: every create call allocates an id that no order in the store has,  *)
(* also when two creates happen at the same clock reading, and it leaves   *)
(* every existing order record as it was.                                  *)
C12_CreateAllocatesFreshId ==
  [][requests' = requests + 1 =>
       /\ DOMAIN orders' # DOMAIN orders
       /\ \A o \in DOMAIN orders : orders'[o] = orders[o]]_vars

(* C13: a create call that fails because a required field is absent (it   *)
(* ends before its first await, without success) leaves the order store    *)
(* unchanged.                                                              *)
C13_InvalidCreateLeavesStore ==
  [][(/\ requests' = requests + 1
      /\ h' = h
      /\ res'.kind = "create"
      /\ res'.out # "success")
       => orders' = orders]_vars

(* C14: createdAt, takenAt and completedAt of an order are each written at *)
(* most once, and those that are set satisfy                               *)
(* createdAt <= takenAt <= completedAt.                                    *)
C14_TimestampsOnceAndOrdered ==
  [][\A o \in DOMAIN orders :
       SameRecord(o) =>
         /\ orders'[o].createdAt = orders[o].createdAt
         /\ orders[o].takenAt # Unset => orders'[o].takenAt = orders[o].takenAt
         /\ orders[o].completedAt # Unset
              => orders'[o].completedAt = orders[o].completedAt
         /\ orders'[o].takenAt # Unset
              => orders'[o].createdAt <= orders'[o].takenAt
         /\ orders'[o].completedAt # Unset
              => /\ orders'[o].takenAt # Unset
                 /\ orders'[o].takenAt <= orders'[o].completedAt]_vars

(* C15: no worker is the assigned worker of two orders that are both       *)
(* taken, whichever entry point claimed them.                              *)
C15_OneTakenOrderPerWorker ==
  \A o1, o2 \in DOMAIN orders :
    (/\ orders[o1].status = "taken"
     /\ orders[o2].status = "taken"
     /\ orders[o1].masterId = orders[o2].masterId)
      => o1 = o2

(* C16: a ledger update for an order id without a row writes nothing and   *)
(* creates no row; an update with a row changes only that row and not its  *)
(* id; the ledger gets a row only by the append of a create call.          *)
C16_UpdateWithoutRowIsNoOp ==
  [][/\ Len(ledger') # Len(ledger)
          => \E s \in Slots :
               /\ h[s].pc = "c_save"
               /\ Len(ledger') = Len(ledger) + 1
               /\ SubSeq(ledger', 1, Len(ledger)) = ledger
               /\ ledger'[Len(ledger')].B = h[s].order
     /\ \A s \in Slots :
          (h[s].pc \in {"get", "get2"} /\ h'[s] # h[s]
             /\ \A i \in 1..Len(ledger) : ledger[i].B # h[s].order)
            => ledger' = ledger /\ h'[s].pc \notin {"upd", "upd2"}
     /\ \A s \in Slots :
          (h[s].pc \in {"upd", "upd2"} /\ h'[s] # h[s])
            => /\ Len(ledger') = Len(ledger)
               /\ \A i \in 1..Len(ledger) :
                    /\ ledger'[i].B = ledger[i].B
                    /\ i # h[s].row => ledger'[i] = ledger[i]]_vars

\* A claim ended with success although the ledger had no row for its order:
\* its update found nothing and the ledger is still empty.
C16_Witness ==
  /\ res.kind = "take"
  /\ res.out = "success"
  /\ ledger = << >>
  /\ \E o \in DOMAIN orders : orders[o].status = "taken"

----------------------------------------------------------------------------
(* Region resolution as the contract words it *)

SameLetter(c, d) == c = d \/ {c, d} = {"A", "a"}

\* The text contains the name, letter case aside.
ContainsName(text, name) ==
  \E i \in 1..Len(text) :
    /\ i + Len(name) - 1 <= Len(text)
    /\ \A j \in 1..Len(name) : SameLetter(text[i + j - 1], name[j])

\* The first configured region named in the text, or the default region.
Region(text) ==
  IF \E k \in 1..Len(CITY_CHANNELS) : ContainsName(text, CITY_CHANNELS[k].city)
  THEN CHOOSE k \in 1..Len(CITY_CHANNELS) :
         /\ ContainsName(text, CITY_CHANNELS[k].city)
         /\ \A m \in 1..(k - 1) : ~ContainsName(text, CITY_CHANNELS[m].city)
  ELSE 1

(* C18: the region a create call resolves is a function of the address     *)
(* text alone: the channel it broadcasts to is that of the first           *)
(* configured region whose name the address contains, letter case aside,   *)
(* or of the default region when it contains none; resolving it changes no *)
(* other order, no worker and no ledger row.                               *)
C18_RegionIsFunctionOfAddress ==
  [][\A s \in Slots :
       (h[s].pc = "idle" /\ h'[s].pc = "c_send")
         => /\ h'[s].channel =
                 CITY_CHANNELS[Region(orders'[h'[s].order].customerAddress[2])].channel
            /\ \A o \in DOMAIN orders \ {h'[s].order} : orders'[o] = orders[o]
            /\ masters' = masters
            /\ ledger' = ledger
            /\ timers' = timers]_vars

\* A create call for an address that names two regions, the later configured
\* one first and one of them in capitals, broadcasts to the region that is
\* first in the configuration.
C18_Witness ==
  \E s \in Slots :
    /\ h[s].pc = "c_send"
    /\ orders[h[s].order].customerAddress = Txt(<<"b", "b", "A">>)
    /\ h[s].channel = "@apexclean_spb"

----------------------------------------------------------------------------
(* C19: the status column K of every ledger row holds an order status and  *)
(* the date and time columns L and M hold what the create call put there:  *)
(* no claim update or photo update writes anything else into them.         *)
C19_LedgerColumnsMirrorStore ==
  \A i \in 1..Len(ledger) :
    /\ ledger[i].K \in {"pending", "taken", "completed"}
    /\ ledger[i].L = "orderDate"
    /\ ledger[i].M = "orderTime"

\* The awaits of a callback claim that was granted.
GrantedPcs == {"k_delete", "k_notify", "k_answer", "get", "upd"}

(* C20: in the callback handler the test of status = pending and the       *)
(* writes of status, masterId and takenAt are one step: a callback on a    *)
(* pending order is granted and writes all three at once; a callback on an *)
(* order that is not pending changes no order and answers 'already taken'; *)
(* no later step of a callback handler writes an order; and no two         *)
(* callback claims are granted for the same order record.                  *)
C20_CallbackClaimIsAtomic ==
  /\ [][\A s \in Slots :
          /\ (h[s].pc = "idle" /\ h'[s].kind = "cb")
               => IF orders[h'[s].order].status = "pending"
                  THEN /\ h'[s].pc = "k_delete"
                       /\ orders'[h'[s].order].status = "taken"
                       /\ orders'[h'[s].order].masterId = h'[s].master
                       /\ orders'[h'[s].order].takenAt = now
                  ELSE /\ h'[s].pc = "k_taken"
                       /\ orders' = orders
          /\ (h[s].kind = "cb" /\ h'[s] # h[s])
               => /\ orders' = orders
                  /\ (h[s].pc = "k_taken" /\ res'.out # "error")
                       => res'.out = "conflict"]_vars
  /\ [](\A s, u \in Slots :
          (/\ s # u
           /\ h[s].kind = "cb" /\ h[u].kind = "cb"
           /\ h[s].pc \in GrantedPcs /\ h[u].pc \in GrantedPcs
           /\ h[s].order = h[u].order)
            => h[s].obj # h[u].obj)

\* Two callback claims on one order: the first was granted and is at its
\* first await, the second found the order taken by the first.
C20_Witness ==
  \E s, u \in Slots :
    /\ h[s].kind = "cb" /\ h[s].pc = "k_delete"
    /\ h[u].kind = "cb" /\ h[u].pc = "k_taken"
    /\ h[s].order = h[u].order
    /\ orders[h[s].order].status = "taken"
    /\ orders[h[s].order].masterId = h[s].master
    /\ h[u].master # h[s].master

====
